---- MODULE Spec2Model ----
(***************************************************************************)
(* State-machine model of the per-call income validation of snet-daemon:   *)
(* escrow.IncomeValidator (escrow/income.go) called concurrently by the    *)
(* call interceptor, beside the payment channel records it is meant to     *)
(* protect; and of the settings of package config (SubWithDefault,         *)
(* SetDefaultFromConfig, Validate) over the viper instances they act on.   *)
(***************************************************************************)
EXTENDS Integers, FiniteSets, Sequences, TLC

\* ---------------------------------------------------------------- bounds
NumCalls == 2
NumChannels == 2
MaxAmount == 1
MaxNonce == 0

Calls == 1..NumCalls
Channels == 1..NumChannels

\* ------------------------------------------------------------ data types
\* IncomeData.GrpcContext carries no channel id / no resolvable method.
NoChannel == 0
\* A channel id for which neither the store nor the chain holds a record.
UnknownChannel == NumChannels + 1
NoMethod == ""
Methods == {"m1"}

\* gRPC status returned by Validate; OK stands for the nil *status.Status.
OK == "OK"
InvalidArgument == "InvalidArgument"
PermissionDenied == "PermissionDenied"
FailedPrecondition == "FailedPrecondition"
ResourceExhausted == "ResourceExhausted"
Aborted == "Aborted"
Unavailable == "Unavailable"
Internal == "Internal"
NoResult == "none"
Statuses == {OK, InvalidArgument, PermissionDenied, FailedPrecondition,
             ResourceExhausted, Aborted, Unavailable, Internal}

\* IncomeData: Income plus the call metadata held by GrpcContext. A caller
\* may claim a nonce the store has not reached yet.
IncomeData ==
    [income : (-1)..MaxAmount,
     channelId : Channels \cup {NoChannel, UnknownChannel},
     method : Methods \cup {NoMethod},
     nonce : 0..(MaxNonce + 1),
     previousAuthorized : 0..MaxAmount]

\* A payment channel record as mirrored in the channel state store: an
\* opened channel holds a deposit, of which a part is authorized.
PaymentChannel ==
    {ch \in [fullAmount : 1..MaxAmount, authorizedAmount : 0..MaxAmount,
             nonce : 0..MaxNonce, expired : BOOLEAN] :
        ch.authorizedAmount <= ch.fullAmount}

\* Pricing policy: the price required for a call of the method (a static
\* price per method).
price(method) == 1

VARIABLES
    store,    \* channel id -> PaymentChannel
    pc,       \* call -> "idle" | "called" | "returned"
    data,     \* call -> the IncomeData passed to Validate
    result,   \* call -> status returned by Validate
    overlap,  \* pairs of calls that were in flight at the same time
    backendUp, \* the state store and the chain oracle answer requests
    config,   \* the viper instance handed to the functions of package config
    defaults, \* the viper instance holding the default settings
    sub,      \* what the last SubWithDefault returned
    op,       \* the last operation of package config that ran
    vip,      \* the package's global viper instance
    err       \* what the last config.Validate returned

callVars == <<store, pc, data, result, overlap, backendUp>>
confVars == <<config, defaults, sub, op>>
vipVars == <<vip, err>>
vars == <<callVars, confVars, vipVars>>

(***************************************************************************)
(* Package config: settings held in viper instances.                       *)
(*                                                                         *)
(* A key is a dotted string; it is modelled as the sequence of its         *)
(* segments.  Keys are case-insensitive: every operation lower-cases the   *)
(* key before it uses it, so the layers only ever hold lower-case paths.   *)
(***************************************************************************)
DaemonTypeKey == "daemon_type"
SSLCertPathKey == "ssl_cert"
SSLKeyPathKey == "ssl_key"

\* strings.ToLower on one segment of a key.
ToLowerSeg(s) ==
    CASE s = "OuTeR" -> "outer"
      [] s = "OUTER" -> "outer"
      [] s = "iNnEr" -> "inner"
      [] s = "INNER" -> "inner"
      [] OTHER -> s

\* strings.ToLower on a key.
ToLower(key) == [i \in DOMAIN key |-> ToLowerSeg(key[i])]

\* The lower-case paths a layer can hold a value at.
OuterPaths == {<<"outer">>, <<"outer", "inner">>, <<"outer", "extra">>}
InnerPaths == {<<"inner">>, <<"extra">>}
VipPaths == {<<DaemonTypeKey>>, <<SSLCertPathKey>>, <<SSLKeyPathKey>>}
Paths == OuterPaths \cup InnerPaths \cup VipPaths \cup {<<"unknown">>}

\* The keys the callers pass, in the spellings the callers use.
SetKeys == {<<"outer">>, <<"outer", "inner">>, <<"outer", "INNER">>,
            <<"OUTER", "extra">>}
SubKeys == {<<"outer">>, <<"OuTeR">>, <<"outer", "inner">>, <<"unknown">>}
GetKeys == {<<"inner">>, <<"iNnEr">>, <<"extra">>}

\* The values callers set explicitly, and the values defaults are given.
Values == {"v1", "v2"}
DefaultValues == {"d1"}
\* Marks a path at which a layer holds nothing.
Nil == "<nil>"

IsPrefix(p, q) == Len(p) <= Len(q) /\ SubSeq(q, 1, Len(p)) = p
IsProperPrefix(p, q) == Len(p) < Len(q) /\ IsPrefix(p, q)
\* What is left of the path q below its prefix p.
Rest(q, p) == SubSeq(q, Len(p) + 1, Len(q))

\* A layer is a nested map[string]interface{}; it is modelled by the value
\* at each of its leaves.
EmptyLayer == [q \in Paths |-> Nil]

\* An interface{} read from a viper instance: nil, an immediate value or a
\* map, the latter given by the values at its leaves.
NilValue == [kind |-> "nil", v |-> Nil, m |-> {}]
Scalar(x) == [kind |-> "scalar", v |-> x, m |-> {}]
Map(entries) == [kind |-> "map", v |-> Nil, m |-> entries]

\* viper.New(): the layers a lookup goes through, highest priority first.
\* env is the part of the process environment the instance reads (empty
\* unless AutomaticEnv was called on it).
New == [override |-> EmptyLayer, env |-> EmptyLayer,
        config |-> EmptyLayer, defaults |-> EmptyLayer]

\* viper.searchMap: the value of a nested map at a path.
searchMap(source, path) ==
    IF source[path] # Nil
    THEN Scalar(source[path])
    ELSE LET under == {q \in Paths : IsProperPrefix(path, q) /\ source[q] # Nil}
         IN  IF under = {}
             THEN NilValue
             ELSE Map({<<Rest(q, path), source[q]>> : q \in under})

\* viper.isPathShadowedInDeepMap: an immediate value sits at a parent of
\* the path.
isPathShadowedInDeepMap(path, m) ==
    \E p \in Paths : IsProperPrefix(p, path) /\ m[p] # Nil

\* viper.find: the layers are searched in priority order, and a layer that
\* holds an immediate value at a parent of the path ends the search.
find(v, path) ==
    LET nested == Len(path) > 1
        o == searchMap(v.override, path)
        c == searchMap(v.config, path)
        d == searchMap(v.defaults, path)
    IN  IF o.kind # "nil" THEN o
        ELSE IF nested /\ isPathShadowedInDeepMap(path, v.override) THEN NilValue
        ELSE IF v.env[path] # Nil THEN Scalar(v.env[path])
        ELSE IF c.kind # "nil" THEN c
        ELSE IF nested /\ isPathShadowedInDeepMap(path, v.config) THEN NilValue
        ELSE IF d.kind # "nil" THEN d
        ELSE NilValue

\* viper.Get
Get(v, key) == find(v, ToLower(key))

\* cast.ToString of viper.Get: anything but an immediate value reads "".
castToString(val) == IF val.kind = "scalar" THEN val.v ELSE ""

\* viper.flattenAndMergeMap: the leaves of a layer join the keys found so
\* far, unless a key found so far is a parent of the leaf.
flattenAndMergeMap(shadow, m) ==
    shadow \cup {q \in Paths : /\ m[q] # Nil
                              /\ ~ \E p \in shadow : IsProperPrefix(p, q)}

\* viper.AllKeys
AllKeys(v) ==
    flattenAndMergeMap(
        flattenAndMergeMap(flattenAndMergeMap({}, v.override), v.config),
        v.defaults)

\* What a value holds at a relative path below it (Nil when nothing).
ValueAt(val, rest) ==
    IF val.kind = "scalar" /\ rest = <<>>
    THEN val.v
    ELSE IF val.kind = "map" /\ \E e \in val.m : e[1] = rest
    THEN (CHOOSE e \in val.m : e[1] = rest)[2]
    ELSE Nil

\* viper.AllSettings: the nested map built from Get of every key of
\* AllKeys, given as a layer.
AllSettings(v) ==
    [q \in Paths |->
        LET ks == {k \in AllKeys(v) :
                      IsPrefix(k, q) /\ ValueAt(find(v, k), Rest(q, k)) # Nil}
        IN  IF ks = {}
            THEN Nil
            ELSE LET k == CHOOSE k \in ks : TRUE
                 IN  ValueAt(find(v, k), Rest(q, k))]

\* The top-level keys of a nested map.
TopKeys(m) == {<<q[1]>> : q \in {p \in Paths : m[p] # Nil}}

\* deepSearch and the assignment that follows it in viper.Set and
\* viper.SetDefault: the value replaces whatever the map held at the path
\* and below it, and an immediate value at a parent of the path gives way
\* to a map.
setValue(m, path, val) ==
    [q \in Paths |->
        IF IsPrefix(path, q) THEN ValueAt(val, Rest(q, path))
        ELSE IF IsProperPrefix(q, path) THEN Nil
        ELSE m[q]]

\* viper.Set
Set(v, key, val) ==
    [v EXCEPT !.override = setValue(v.override, ToLower(key), val)]

\* viper.SetDefault
SetDefault(v, key, val) ==
    [v EXCEPT !.defaults = setValue(v.defaults, ToLower(key), val)]

\* ReadConfig: the parsed document becomes the config layer.
ReadConfig(v, document) == [v EXCEPT !.config = document]

\* cast.ToStringMap: anything but a map converts to the empty map.
ToStringMap(val) == IF val.kind = "map" THEN val.m ELSE {}

\* viper.GetString
GetString(v, key) == castToString(Get(v, key))

\* The settings documents a JSON string can hold under the key "outer".
ValueOrNil(x) == IF x = Nil THEN NilValue ELSE Scalar(x)
Documents ==
    {setValue(EmptyLayer, <<"outer">>, Scalar(x)) : x \in DefaultValues}
    \cup {setValue(setValue(EmptyLayer, <<"outer", "inner">>, ValueOrNil(a)),
                   <<"outer", "extra">>, ValueOrNil(b)) :
              a \in DefaultValues \cup {Nil}, b \in DefaultValues \cup {Nil}}

\* ReadConfigFromJsonString reads the settings of the JSON string into the
\* config instance.
ReadConfigFromJsonString(conf, document) == ReadConfig(conf, document)

\* for subKey, value := range subMap { sub.Set(subKey, value) }
RECURSIVE SetEach(_, _, _)
SetEach(conf, settings, keys) ==
    IF keys = {}
    THEN conf
    ELSE LET key == CHOOSE k \in keys : TRUE
         IN  SetEach(Set(conf, key, searchMap(settings, key)), settings,
                     keys \ {key})

\* SetDefaultFromConfig that writes the settings as explicit values.
SetDefaultFromConfigOverriding(conf, defs) ==
    LET settings == AllSettings(defs)
    IN  SetEach(conf, settings, TopKeys(settings))

\* for key, value := range defaults.AllSettings() { config.SetDefault(key, value) }
RECURSIVE SetDefaultEach(_, _, _)
SetDefaultEach(conf, settings, keys) ==
    IF keys = {}
    THEN conf
    ELSE LET key == CHOOSE k \in keys : TRUE
         IN  SetDefaultEach(SetDefault(conf, key, searchMap(settings, key)),
                            settings, keys \ {key})

\* SetDefaultFromConfig sets all settings from defaults as default values
\* to the config.
SetDefaultFromConfig(conf, defs) ==
    LET settings == AllSettings(defs)
    IN  SetDefaultEach(conf, settings, TopKeys(settings))

\* What SubWithDefault returns: nil, or a viper instance.
NilSub == [isNil |-> TRUE, v |-> New]

\* The entries of a map, as a layer.
AsLayer(entries) == [q \in Paths |-> ValueAt(Map(entries), q)]

\* SubWithDefault returns sub-config by keys including configuration
\* defaults values.  The settings map is indexed with the whole lower-cased
\* key, and its top-level keys are single segments.
SubWithDefault(conf, key) ==
    LET allSettings == AllSettings(conf)
        lower == ToLower(key)
        ok == Len(lower) = 1 /\ lower \in TopKeys(allSettings)
        subMap == AsLayer(ToStringMap(searchMap(allSettings, lower)))
    IN  IF ~ok
        THEN NilSub
        ELSE [isNil |-> FALSE, v |-> SetEach(New, subMap, TopKeys(subMap))]

\* The errors of config.Validate.
NoError == "nil"
UnrecognizedDaemonType == "unrecognized DAEMON_TYPE"
SSLRequiresBoth == "SSL requires both key and certificate when enabled"
NotValidated == "not validated"

\* config.Validate that looks at the SSL pair before the daemon type.
ConfigValidateSSLFirst(v) ==
    LET dType == GetString(v, <<DaemonTypeKey>>)
        certPath == GetString(v, <<SSLCertPathKey>>)
        keyPath == GetString(v, <<SSLKeyPathKey>>)
    IN  IF (certPath # "" /\ keyPath = "") \/ (certPath = "" /\ keyPath # "")
        THEN SSLRequiresBoth
        ELSE IF dType \notin {"grpc", "http"} THEN UnrecognizedDaemonType
        ELSE NoError

\* config.Validate, on the global instance.
ConfigValidate(v) ==
    LET dType == GetString(v, <<DaemonTypeKey>>)
        certPath == GetString(v, <<SSLCertPathKey>>)
        keyPath == GetString(v, <<SSLKeyPathKey>>)
    IN  IF dType \notin {"grpc", "http"} THEN UnrecognizedDaemonType
        ELSE IF (certPath # "" /\ keyPath = "") \/ (certPath = "" /\ keyPath # "")
        THEN SSLRequiresBoth
        ELSE NoError

\* defaultConfigJson, as far as config.Validate reads it.
defaultConfigJson ==
    [q \in Paths |->
        CASE q = <<DaemonTypeKey>> -> "grpc"
          [] q = <<SSLCertPathKey>> -> ""
          [] q = <<SSLKeyPathKey>> -> ""
          [] OTHER -> Nil]

\* The environment variables SNET_DAEMON_TYPE, SNET_SSL_CERT and
\* SNET_SSL_KEY the daemon may be started with (Nil: not set).
Environments ==
    {[q \in Paths |->
        CASE q = <<DaemonTypeKey>> -> t
          [] q = <<SSLCertPathKey>> -> c
          [] OTHER -> Nil] : t \in {Nil, "http", "ftp"}, c \in {Nil, "cert.pem"}}

\* The settings a configuration file may hold (Nil: key absent).
ConfigFiles ==
    {[q \in Paths |->
        CASE q = <<DaemonTypeKey>> -> t
          [] q = <<SSLCertPathKey>> -> c
          [] q = <<SSLKeyPathKey>> -> k
          [] OTHER -> Nil] :
        t \in {Nil, "grpc", "http", "ftp"}, c \in {Nil, "", "cert.pem"},
        k \in {Nil, "", "key.pem"}}

NoData ==
    [income |-> 0, channelId |-> NoChannel, method |-> NoMethod,
     nonce |-> 0, previousAuthorized |-> 0]

InitCalls ==
    /\ store \in [Channels -> PaymentChannel]
    /\ pc = [c \in Calls |-> "idle"]
    /\ data = [c \in Calls |-> NoData]
    /\ result = [c \in Calls |-> NoResult]
    /\ overlap = {}

\* Nothing has touched the settings.
ConfigUntouched ==
    /\ config = New
    /\ defaults = New
    /\ sub = NilSub
    /\ op = "none"
    /\ vip = New
    /\ err = NotValidated

Init == InitCalls /\ backendUp = TRUE /\ ConfigUntouched

\* The validator started while its backing services may be out of reach.
OutageInit == InitCalls /\ backendUp \in BOOLEAN /\ ConfigUntouched

\* The interceptor builds the IncomeData of an inbound call and invokes
\* the validator.
Call(c) ==
    /\ pc[c] = "idle"
    /\ \E d \in IncomeData : data' = [data EXCEPT ![c] = d]
    /\ pc' = [pc EXCEPT ![c] = "called"]
    /\ overlap' = overlap \cup {{c, o} : o \in {o \in Calls : pc[o] = "called"}}
    /\ UNCHANGED <<store, result, backendUp>>
    /\ UNCHANGED <<confVars, vipVars>>

\* A validator that advances the channel by the claimed income on every call,
\* without comparing the new amount with the deposit.
ValidateAdvancing(c) ==
    /\ pc[c] = "called"
    /\ result' = [result EXCEPT ![c] = OK]
    /\ pc' = [pc EXCEPT ![c] = "returned"]
    /\ store' = IF data[c].channelId \in Channels /\ data[c].income > 0
                THEN [store EXCEPT ![data[c].channelId] =
                        [@ EXCEPT !.authorizedAmount = @ + data[c].income,
                                  !.nonce = @ + 1]]
                ELSE store
    /\ UNCHANGED <<data, overlap, backendUp>>
    /\ UNCHANGED <<confVars, vipVars>>

\* A validator that retries its update forever and never returns.
ValidateSpinning(c) ==
    /\ pc[c] = "called"
    /\ UNCHANGED vars

\* A validator that advances the authorized amount of the channel and leaves
\* its nonce as it was.
ValidateAmountOnly(c) ==
    /\ pc[c] = "called"
    /\ result' = [result EXCEPT ![c] = OK]
    /\ pc' = [pc EXCEPT ![c] = "returned"]
    /\ store' = IF data[c].channelId \in DOMAIN store /\ data[c].income > 0
                THEN [store EXCEPT ![data[c].channelId].authorizedAmount =
                                        @ + data[c].income]
                ELSE store
    /\ UNCHANGED <<data, overlap, backendUp>>
    /\ UNCHANGED <<confVars, vipVars>>

\* A validator that writes the record it reconciled for a channel the store
\* did not hold.
ValidateReconciling(c) ==
    /\ pc[c] = "called"
    /\ result' = [result EXCEPT ![c] = OK]
    /\ pc' = [pc EXCEPT ![c] = "returned"]
    /\ store' = IF data[c].channelId \notin DOMAIN store \cup {NoChannel}
                THEN [ch \in DOMAIN store \cup {data[c].channelId} |->
                        IF ch \in DOMAIN store
                        THEN store[ch]
                        ELSE [fullAmount |-> MaxAmount, authorizedAmount |-> 0,
                              nonce |-> 0, expired |-> FALSE]]
                ELSE store
    /\ UNCHANGED <<data, overlap, backendUp>>
    /\ UNCHANGED <<confVars, vipVars>>

\* A validator that serializes all calls behind one lock and gives up when
\* any other call is in flight, whatever its channel.
ValidateSerialized(c) ==
    /\ pc[c] = "called"
    /\ result' = [result EXCEPT ![c] =
                    IF \E o \in Calls \ {c} : pc[o] = "called"
                    THEN Aborted ELSE OK]
    /\ pc' = [pc EXCEPT ![c] = "returned"]
    /\ UNCHANGED <<store, data, overlap, backendUp>>
    /\ UNCHANGED <<confVars, vipVars>>

\* A validator that remembers having accepted a call and rejects the ones
\* that follow.
ValidateFirstOnly(c) ==
    /\ pc[c] = "called"
    /\ result' = [result EXCEPT ![c] =
                    IF \E o \in Calls : pc[o] = "returned"
                    THEN FailedPrecondition ELSE OK]
    /\ pc' = [pc EXCEPT ![c] = "returned"]
    /\ UNCHANGED <<store, data, overlap, backendUp>>
    /\ UNCHANGED <<confVars, vipVars>>

\* func (validator *incomeValidator) Validate(*IncomeData) (err *status.Status)
\*     return nil
Validate(c) ==
    /\ pc[c] = "called"
    /\ result' = [result EXCEPT ![c] = OK]
    /\ pc' = [pc EXCEPT ![c] = "returned"]
    /\ UNCHANGED <<store, data, overlap, backendUp>>
    /\ UNCHANGED <<confVars, vipVars>>

Next == \E c \in Calls : Call(c) \/ Validate(c)

Spec == Init /\ [][Next]_vars

OutageSpec == OutageInit /\ [][Next]_vars

\* Every goroutine that entered Validate is scheduled until it returns.
FairSpec == Spec /\ \A c \in Calls : WF_vars(Validate(c))

\* ------------------------------------------------------- package config
\* No call reaches the validator while the settings are worked on.
NoCalls ==
    /\ store = [ch \in Channels |->
                   [fullAmount |-> MaxAmount, authorizedAmount |-> 0,
                    nonce |-> 0, expired |-> FALSE]]
    /\ pc = [c \in Calls |-> "idle"]
    /\ data = [c \in Calls |-> NoData]
    /\ result = [c \in Calls |-> NoResult]
    /\ overlap = {}
    /\ backendUp = TRUE

\* var config = viper.New(); var defaults = viper.New()
ConfigInit == NoCalls /\ ConfigUntouched

\* config.Set(key, value)
ConfigSet(key, value) ==
    /\ op' = "Set"
    /\ config' = Set(config, key, Scalar(value))
    /\ UNCHANGED <<defaults, sub, callVars, vipVars>>

\* config.SetDefault(key, value)
ConfigSetDefault(key, value) ==
    /\ op' = "SetDefault"
    /\ config' = SetDefault(config, key, Scalar(value))
    /\ UNCHANGED <<defaults, sub, callVars, vipVars>>

\* ReadConfigFromJsonString(defaults, json)
ReadDefaults(document) ==
    /\ op' = "ReadConfigFromJsonString"
    /\ defaults' = ReadConfigFromJsonString(defaults, document)
    /\ UNCHANGED <<config, sub, callVars, vipVars>>

\* SetDefaultFromConfig(config, defaults)
SetDefaultFromConfigCall ==
    /\ op' = "SetDefaultFromConfig"
    /\ config' = SetDefaultFromConfig(config, defaults)
    /\ UNCHANGED <<defaults, sub, callVars, vipVars>>

\* var sub = SubWithDefault(config, key)
SubWithDefaultCall(key) ==
    /\ op' = "SubWithDefault"
    /\ sub' = SubWithDefault(config, key)
    /\ UNCHANGED <<config, defaults, callVars, vipVars>>

ConfigNext ==
    \/ \E key \in SetKeys, value \in Values : ConfigSet(key, value)
    \/ \E key \in SetKeys, value \in DefaultValues :
           ConfigSetDefault(key, value)
    \/ \E document \in Documents : ReadDefaults(document)
    \/ SetDefaultFromConfigCall
    \/ \E key \in SubKeys : SubWithDefaultCall(key)

ConfigSpec == ConfigInit /\ [][ConfigNext]_vars

\* init(): the global instance reads the environment and takes the
\* settings of defaultConfigJson as its defaults.
VipInit ==
    /\ NoCalls
    /\ config = New
    /\ defaults = New
    /\ sub = NilSub
    /\ op = "none"
    /\ \E environment \in Environments :
           vip = SetDefaultFromConfig(
                     [New EXCEPT !.env = environment],
                     ReadConfigFromJsonString(New, defaultConfigJson))
    /\ err = NotValidated

\* LoadConfig(configFile)
LoadConfig(configFile) ==
    /\ vip' = ReadConfig(vip, configFile)
    /\ UNCHANGED <<err, callVars, confVars>>

\* err := config.Validate()
ValidateConfig ==
    /\ err' = ConfigValidate(vip)
    /\ UNCHANGED <<vip, callVars, confVars>>

VipNext ==
    \/ \E configFile \in ConfigFiles : LoadConfig(configFile)
    \/ ValidateConfig

VipSpec == VipInit /\ [][VipNext]_vars

\* ------------------------------------------------------------ vocabulary
\* The step in which call c returns from Validate.
Returns(c) == pc[c] = "called" /\ pc'[c] = "returned"

Returned(c) == pc[c] = "returned"
Accepted(c) == Returned(c) /\ result[c] = OK

\* Step 1 of the validation: the IncomeData cannot be validated at all.
Malformed(d) ==
    d.income < 0 \/ d.channelId = NoChannel \/ d.method = NoMethod

\* Step 3: the claimed income is below the price of the call.
Underpaid(d) == ~Malformed(d) /\ d.income < price(d.method)

\* Step 5: the caller's claimed nonce and previous amount are the stored ones.
Matches(d) ==
    /\ d.channelId \in DOMAIN store
    /\ d.nonce = store[d.channelId].nonce
    /\ d.previousAuthorized = store[d.channelId].authorizedAmount

\* Step 6: the channel cannot hold the income, or it has expired.
Exhausted(d) ==
    \/ store[d.channelId].authorizedAmount + d.income
          > store[d.channelId].fullAmount
    \/ store[d.channelId].expired

Remaining(ch) == store[ch].fullAmount - store[ch].authorizedAmount

\* A call that passes every check of the validation against the store.
Eligible(d) ==
    /\ ~Malformed(d)
    /\ d.income >= price(d.method)
    /\ Matches(d)
    /\ ~Exhausted(d)

\* Two calls presenting one and the same authorization of the sender.
SameAuthorization(d, e) ==
    /\ d.channelId = e.channelId
    /\ d.nonce = e.nonce
    /\ d.previousAuthorized = e.previousAuthorized

Concurrent(c, o) == c # o /\ {c, o} \in overlap

\* ---------------------------------------------------------------- C1
\* C1: Validate returns nil only for a call whose payment is valid: when the
\* IncomeData is malformed or its income does not cover the price of the
\* call, the status returned is not nil.
ValidateNilOnlyWhenPaid ==
    \A c \in Calls :
        Accepted(c) =>
            /\ ~Malformed(data[c])
            /\ data[c].income >= price(data[c].method)

\* ---------------------------------------------------------------- C2
\* C2: in every reachable state, whatever calls were validated and however
\* they interleaved, each channel's authorizedAmount is at most its
\* fullAmount.
AuthorizedWithinDeposit ==
    \A ch \in Channels : store[ch].authorizedAmount <= store[ch].fullAmount

\* Two concurrent calls with positive income were validated on a channel
\* whose deposit is already fully authorized.
AuthorizedWithinDepositWitness ==
    \E c \in Calls, o \in Calls :
        /\ Concurrent(c, o)
        /\ Accepted(c) /\ Accepted(o)
        /\ data[c].channelId \in Channels
        /\ data[o].channelId = data[c].channelId
        /\ data[c].income > 0 /\ data[o].income > 0
        /\ Remaining(data[c].channelId) = 0

\* ---------------------------------------------------------------- C3
\* C3: a single authorization is never double-counted: of two concurrent
\* calls on one channel that present the same stored (authorizedAmount,
\* nonce), at most one is accepted.
NoDoubleCounting ==
    \A c \in Calls, o \in Calls :
        (/\ Concurrent(c, o)
         /\ Eligible(data[c]) /\ Eligible(data[o])
         /\ SameAuthorization(data[c], data[o]))
        => ~(Accepted(c) /\ Accepted(o))

\* ---------------------------------------------------------------- C4
\* C4: of N concurrent accept-eligible calls of price P on a channel whose
\* remaining capacity is k*P with k < N, exactly k are accepted, the others
\* are rejected with ResourceExhausted or Aborted, and the authorized amount
\* stays within fullAmount.
ExactlyKAccepted ==
    \A ch \in Channels, m \in Methods, S \in SUBSET Calls :
        LET P == price(m)
            N == Cardinality(S)
            acc == {c \in S : result[c] = OK}
        IN  (/\ N >= 2
             /\ \A c \in S :
                    /\ Returned(c)
                    /\ data[c].channelId = ch
                    /\ data[c].method = m
                    /\ data[c].income = P
                    /\ Eligible(data[c])
             /\ \A c \in S, o \in S : c # o => Concurrent(c, o))
            => \A k \in 0..(N - 1) :
                   Remaining(ch) = k * P =>
                       /\ Cardinality(acc) = k
                       /\ \A c \in S \ acc :
                              result[c] \in {ResourceExhausted, Aborted}
                       /\ store[ch].authorizedAmount <= store[ch].fullAmount

\* ---------------------------------------------------------------- C5
\* C5: a call whose income covers the price, whose channel has the capacity,
\* whose nonce and previous amount match the store and whose channel is
\* unexpired is accepted, and the stored authorized amount grows by exactly
\* the income while the nonce grows by one.
EligibleCallAdvances ==
    [][\A c \in Calls :
          (Returns(c) /\ Eligible(data[c])) =>
              LET ch == data[c].channelId
              IN  /\ result'[c] = OK
                  /\ store'[ch].authorizedAmount
                        = store[ch].authorizedAmount + data[c].income
                  /\ store'[ch].nonce = store[ch].nonce + 1]_vars

\* ---------------------------------------------------------------- C6
\* C6: a call whose income is below the price of the call is rejected with
\* PermissionDenied and the store is not changed.
UnderpaidDenied ==
    [][\A c \in Calls :
          (Returns(c) /\ Underpaid(data[c])) =>
              (result'[c] = PermissionDenied /\ store' = store)]_vars

\* ---------------------------------------------------------------- C7
\* C7: the replay of a call that was already accepted (same nonce and
\* previous amount) is rejected with FailedPrecondition and does not
\* advance the authorized amount again.
ReplayRejected ==
    [][\A c \in Calls :
          (/\ Returns(c)
           /\ ~Malformed(data[c])
           /\ data[c].income >= price(data[c].method)
           /\ \E o \in Calls :
                  /\ o # c
                  /\ Accepted(o)
                  /\ ~Concurrent(c, o)
                  /\ data[o] = data[c])
          => (result'[c] = FailedPrecondition /\ store' = store)]_vars

\* ---------------------------------------------------------------- C8
\* C8: a call whose income would take the authorized amount above
\* fullAmount, or whose channel has expired, is rejected with
\* ResourceExhausted and the store is not changed.
ExhaustedRejected ==
    [][\A c \in Calls :
          (/\ Returns(c)
           /\ ~Malformed(data[c])
           /\ data[c].income >= price(data[c].method)
           /\ Matches(data[c])
           /\ Exhausted(data[c]))
          => (result'[c] = ResourceExhausted /\ store' = store)]_vars

\* ---------------------------------------------------------------- C9
\* C9: a call with negative income, without channel id or without a
\* resolvable method is rejected with InvalidArgument and the store is not
\* changed.
MalformedRejected ==
    [][\A c \in Calls :
          (Returns(c) /\ Malformed(data[c])) =>
              (result'[c] = InvalidArgument /\ store' = store)]_vars

MutatedOncePerAccept ==
    [][(\A c \in Calls : Returns(c) => Eligible(data[c])) =>
          \A ch \in DOMAIN store :
              store'[ch].nonce - store[ch].nonce =
                  Cardinality({c \in Calls : /\ Returns(c)
                                             /\ result'[c] = OK
                                             /\ data[c].channelId = ch})]_vars

\* --------------------------------------------------------------- C12
\* C12: over every step the stored authorizedAmount and nonce of a channel
\* do not decrease, and a step that changes a channel record increases its
\* nonce.
StoredStateMonotonic ==
    [][\A ch \in DOMAIN store :
          /\ ch \in DOMAIN store'
          /\ store'[ch].authorizedAmount >= store[ch].authorizedAmount
          /\ store'[ch].nonce >= store[ch].nonce
          /\ store'[ch] # store[ch] => store'[ch].nonce > store[ch].nonce]_vars

\* A call that passes every check, with a positive income, was accepted.
StoredStateMonotonicWitness ==
    \E c \in Calls :
        Accepted(c) /\ Eligible(data[c]) /\ data[c].income > 0

\* --------------------------------------------------------------- C13
\* C13: a paid call on a channel of which neither the store nor the chain
\* holds a record is rejected with FailedPrecondition, and the store is not
\* changed.
UnknownChannelRejected ==
    [][\A c \in Calls :
          (/\ Returns(c)
           /\ ~Malformed(data[c])
           /\ data[c].income >= price(data[c].method)
           /\ data[c].channelId \notin DOMAIN store)
          => (result'[c] = FailedPrecondition /\ store' = store)]_vars

\* --------------------------------------------------------------- C14
\* C14: the validator neither creates nor destroys channel records: every
\* step leaves the set of channel ids of the store as it was.
ChannelRecordsKept == [][DOMAIN store' = DOMAIN store]_vars

\* A well-formed call on a channel unknown to the store was validated.
ChannelRecordsKeptWitness ==
    \E c \in Calls :
        /\ Returned(c)
        /\ ~Malformed(data[c])
        /\ data[c].channelId = UnknownChannel
        /\ DOMAIN store = Channels

OutageIsUnavailable ==
    [][\A c \in Calls :
          (/\ Returns(c)
           /\ ~backendUp
           /\ ~Malformed(data[c])
           /\ data[c].income >= price(data[c].method))
          => (result'[c] \in {Unavailable, Internal} /\ store' = store)]_vars

\* --------------------------------------------------------------- C17
\* C17: a call validated with the IncomeData of an earlier call, against the
\* same store and with no other call interleaved, gets the outcome of the
\* earlier call and leaves the store in the same state.
ValidationDeterministic ==
    [][\A c \in Calls, o \in Calls :
          (/\ Returns(o)
           /\ c # o
           /\ Returned(c)
           /\ data[c] = data[o]
           /\ \A x \in Calls : ~Concurrent(c, x) /\ ~Concurrent(o, x))
          => (result'[o] = result[c] /\ store' = store)]_vars

\* Two calls with the same IncomeData were validated one after the other.
ValidationDeterministicWitness ==
    \E c \in Calls, o \in Calls :
        /\ c # o
        /\ Returned(c) /\ Returned(o)
        /\ ~Concurrent(c, o)
        /\ data[c] = data[o]
        /\ Eligible(data[c])
        /\ result[c] = result[o]

\* C18: SubWithDefault(config, key) returns nil exactly when config has no
\* setting, explicit or default, under key (compared case-insensitively);
\* otherwise the sub-config it returns reads, at every sub-key (looked up
\* case-insensitively), the value config holds under key at that sub-key;
\* and for a key that holds a non-map value the sub-config is non-nil and
\* has no sub-keys.
SubWithDefaultLikeSub ==
    [][\A key \in SubKeys :
           SubWithDefaultCall(key) =>
               /\ sub'.isNil <=> Get(config, key).kind = "nil"
               /\ ~sub'.isNil =>
                      \A subKey \in GetKeys :
                          Get(sub'.v, subKey) = Get(config, key \o subKey)
               /\ Get(config, key).kind = "scalar" =>
                      ~sub'.isNil /\ AllKeys(sub'.v) = {}]_vars

\* A key at which the instance reads a setting.
IsSetting(v, path) == find(v, path).kind # "nil"

\* A key at which the instance holds a value given with Set.
ExplicitlySet(v, path) == searchMap(v.override, path).kind # "nil"

\* C19: after SetDefaultFromConfig(config, defaults), every setting of
\* defaults, top-level or nested, that config does not set explicitly reads
\* from config with the value it has in defaults, and every value config
\* had set explicitly still reads unchanged.
DefaultsReadThrough ==
    [][SetDefaultFromConfigCall =>
           \A path \in Paths :
               /\ IsSetting(defaults, path) /\ ~ExplicitlySet(config, path) =>
                      find(config', path) = find(defaults, path)
               /\ ExplicitlySet(config, path) =>
                      find(config', path) = find(config, path)]_vars

\* C19, amended: the same, for the settings of defaults that do not lie
\* under a key to which config explicitly gives a non-map value (such a
\* value hides every default nested under it).
DefaultsReadThroughUnlessShadowed ==
    [][SetDefaultFromConfigCall =>
           \A path \in Paths :
               /\ /\ IsSetting(defaults, path)
                  /\ ~ExplicitlySet(config, path)
                  /\ ~isPathShadowedInDeepMap(path, config.override)
                  => find(config', path) = find(defaults, path)
               /\ ExplicitlySet(config, path) =>
                      find(config', path) = find(config, path)]_vars

\* SetDefaultFromConfig has run on a config that sets one key explicitly to
\* a value other than the default and leaves another key to the defaults.
DefaultsReadThroughWitness ==
    /\ op = "SetDefaultFromConfig"
    /\ \E path \in Paths :
           /\ IsSetting(defaults, path)
           /\ ~ExplicitlySet(config, path)
           /\ find(config, path) = find(defaults, path)
    /\ \E path \in Paths :
           /\ IsSetting(defaults, path)
           /\ ExplicitlySet(config, path)
           /\ find(config, path) # find(defaults, path)

\* C20: config.Validate returns an error exactly when daemon_type is
\* neither "grpc" nor "http" or exactly one of ssl_cert and ssl_key is
\* non-empty, and nil otherwise; an unrecognized daemon type is reported
\* whatever the SSL pair is (it is checked first); and the call leaves the
\* configuration as it was.
ValidateRejectsBadSettings ==
    [][ValidateConfig =>
           LET badType == GetString(vip, <<DaemonTypeKey>>) \notin {"grpc", "http"}
               hasCert == GetString(vip, <<SSLCertPathKey>>) # ""
               hasKey == GetString(vip, <<SSLKeyPathKey>>) # ""
           IN  /\ err' # NoError <=> badType \/ (hasCert # hasKey)
               /\ err' = NoError <=> ~badType /\ (hasCert = hasKey)
               /\ badType => err' = UnrecognizedDaemonType
               /\ ~badType /\ (hasCert # hasKey) => err' = SSLRequiresBoth
               /\ vip' = vip]_vars

\* Validate has reported the daemon type of a configuration whose SSL pair
\* is incomplete as well.
ValidateRejectsBadSettingsWitness ==
    /\ err = UnrecognizedDaemonType
    /\ GetString(vip, <<DaemonTypeKey>>) = "ftp"
    /\ GetString(vip, <<SSLCertPathKey>>) # ""
    /\ GetString(vip, <<SSLKeyPathKey>>) = ""
====
